---- MODULE Spec2Model ----
(***************************************************************************)
(* Model of Wild::CommandLine (src/CommandLine.h): the Arg declarations,   *)
(* the Args registry built from them, Args::Parse over a list of tokens    *)
(* and the accessors IsSet / Get / GetAsInt / GetAsBool / GetAsFloat.      *)
(*                                                                         *)
(* A std::string is a sequence of one-character strings, so that           *)
(* StripDashes, the size checks and the ordering of std::map keys are      *)
(* computed on characters as the code computes them.  The description of   *)
(* an Arg is display text only (used by Usage) and is left out.            *)
(***************************************************************************)
EXTENDS Integers, Sequences, FiniteSets, TLC

VARIABLES
    pc,                        \* "start": no Args object yet; "ready": constructed; "threw": a constructor threw
    scenario,                  \* which declaration list / token universe the run uses
    m_args,                    \* std::map<string, Arg>
    m_insertionOrder,          \* std::vector<string>
    m_orderedArgNames,         \* std::vector<string>
    m_currentOrderedArgIndex,  \* std::size_t, 0-based
    m_argLookup,               \* std::map<string, string>: letter -> name
    m_argValues,               \* std::map<string, string>: name -> value
    lastCall                   \* the last public call: its arguments, return value and what it printed

vars == <<pc, scenario, m_args, m_insertionOrder, m_orderedArgNames,
          m_currentOrderedArgIndex, m_argLookup, m_argValues, lastCall>>

----------------------------------------------------------------------------
(* Bounds *)

\* longest command line handed to Parse
MaxTokens == 3

----------------------------------------------------------------------------
(* Strings *)

\* the characters used, in ASCII order (std::string compares by character code)
Alphabet == <<"-", "5", "a", "b", "c", "e", "f", "g", "m", "n", "o", "p",
              "r", "s", "t", "u", "v", "x", "z">>

CharCode(c) == CHOOSE k \in 1..Len(Alphabet) : Alphabet[k] = c

EmptyString == << >>

\* std::string::substr(pos): the characters from 0-based position pos on
Substr(s, pos) == SubSeq(s, pos + 1, Len(s))

\* std::string::substr(pos, 1): the character at 0-based pos, "" when pos = size
CharAt(s, pos) == IF pos + 1 <= Len(s) THEN <<s[pos + 1]>> ELSE EmptyString

\* operator< of std::string: lexicographic on character codes
StrLess(a, b) ==
    \E k \in 1..(Len(a) + 1) :
        /\ \A h \in 1..(k - 1) : h <= Len(b) /\ a[h] = b[h]
        /\ \/ k > Len(a) /\ k <= Len(b)
           \/ k <= Len(a) /\ k <= Len(b) /\ CharCode(a[k]) < CharCode(b[k])

FirstKey_Greatest(S) == CHOOSE n \in S : \A m \in S \ {n} : StrLess(m, n)

\* the first key of a set of std::map keys in iteration order
FirstKey(S) == CHOOSE n \in S : \A m \in S \ {n} : StrLess(n, m)

\* the empty std::map
EmptyMap == [k \in {} |-> EmptyString]

\* m[k] = v on a std::map
Put(m, k, v) == [x \in (DOMAIN m) \cup {k} |-> IF x = k THEN v ELSE m[x]]

----------------------------------------------------------------------------
(* enum class Ordinality *)

Required == "Required"
Optional == "Optional"

----------------------------------------------------------------------------
(* class Arg and its subclasses.  A constructor yields                     *)
(* [threw |-> FALSE, arg |-> the object] or [threw |-> TRUE, what |-> msg]. *)

IsValidValue_AcceptsAll(arg, value) == TRUE

\* Arg::IsValidValue
IsValidValue(arg, value) ==
    IF Cardinality(arg.possibleValues) = 0 THEN TRUE
    ELSE value \in arg.possibleValues

\* Arg::IsRequired
IsRequired(arg) == arg.ordinality = Required

CheckValidity_OneLetterName(arg) ==
    IF Len(arg.name) < 1 THEN "argument name must be two or more letters"
    ELSE IF ~(Len(arg.letter) = 1 \/ Len(arg.letter) = 0)
         THEN "argument letter must be one letter or blank"
    ELSE ""

\* Arg::CheckValidity: the message it throws, or "" when the Arg is valid
CheckValidity(arg) ==
    IF Len(arg.name) < 2 THEN "argument name must be two or more letters"
    ELSE IF ~(Len(arg.letter) = 1 \/ Len(arg.letter) = 0)
         THEN "argument letter must be one letter or blank"
    ELSE ""

Constructed(arg) ==
    IF CheckValidity(arg) # "" THEN [threw |-> TRUE, what |-> CheckValidity(arg)]
    ELSE [threw |-> FALSE, arg |-> arg]

\* Arg(name, letter, description, ordinality)
ArgOrdinality(name, letter, ordinality) ==
    Constructed([name |-> name, letter |-> letter, possibleValues |-> {},
                 defaultValue |-> EmptyString, defaultValueSet |-> FALSE,
                 ordinality |-> ordinality, isFlag |-> FALSE, isPositional |-> FALSE])

\* Arg(name, letter, description, defaultValue)
ArgDefault(name, letter, defaultValue) ==
    Constructed([name |-> name, letter |-> letter, possibleValues |-> {},
                 defaultValue |-> defaultValue, defaultValueSet |-> TRUE,
                 ordinality |-> Optional, isFlag |-> FALSE, isPositional |-> FALSE])

ArgPossibleDefault_Unchecked(name, letter, possibleValues, defaultValue) ==
    Constructed([name |-> name, letter |-> letter, possibleValues |-> possibleValues,
                 defaultValue |-> defaultValue, defaultValueSet |-> TRUE,
                 ordinality |-> Optional, isFlag |-> FALSE, isPositional |-> FALSE])

\* Arg(name, letter, description, possibleValues, defaultValue)
ArgPossibleDefault(name, letter, possibleValues, defaultValue) ==
    LET arg == [name |-> name, letter |-> letter, possibleValues |-> possibleValues,
                defaultValue |-> defaultValue, defaultValueSet |-> TRUE,
                ordinality |-> Optional, isFlag |-> FALSE, isPositional |-> FALSE]
    IN  IF ~IsValidValue(arg, defaultValue)
        THEN [threw |-> TRUE, what |-> "default value is not present in allowed values"]
        ELSE Constructed(arg)

\* Arg(name, letter, description, possibleValues, ordinality)
ArgPossibleOrdinality(name, letter, possibleValues, ordinality) ==
    Constructed([name |-> name, letter |-> letter, possibleValues |-> possibleValues,
                 defaultValue |-> EmptyString, defaultValueSet |-> FALSE,
                 ordinality |-> ordinality, isFlag |-> FALSE, isPositional |-> FALSE])

\* PositionalArg(name, description, ordinality): Arg(name, "", description, ordinality), then isPositional = true
PositionalArg(name, ordinality) ==
    LET base == ArgOrdinality(name, EmptyString, ordinality)
    IN  IF base.threw THEN base
        ELSE [threw |-> FALSE, arg |-> [base.arg EXCEPT !.isPositional = TRUE]]

\* Flag(name, letter, description): Arg(name, letter, description, Is::Optional), then isFlag = true, CheckValidity()
Flag(name, letter) ==
    LET base == ArgOrdinality(name, letter, Optional)
    IN  IF base.threw THEN base
        ELSE Constructed([base.arg EXCEPT !.isFlag = TRUE])

\* one entry of the initializer list handed to Args: the constructor call that makes it
MakeArg(call) ==
    CASE call.ctor = "Flag" -> Flag(call.name, call.letter)
      [] call.ctor = "PositionalArg" -> PositionalArg(call.name, call.ordinality)
      [] call.ctor = "ArgOrdinality" -> ArgOrdinality(call.name, call.letter, call.ordinality)
      [] call.ctor = "ArgDefault" -> ArgDefault(call.name, call.letter, call.defaultValue)
      [] call.ctor = "ArgPossibleDefault" ->
            ArgPossibleDefault(call.name, call.letter, call.possibleValues, call.defaultValue)
      [] call.ctor = "ArgPossibleOrdinality" ->
            ArgPossibleOrdinality(call.name, call.letter, call.possibleValues, call.ordinality)

----------------------------------------------------------------------------
(* class Args: private helpers *)

Clear_Kept(values) == values

\* m_argValues.clear()
Clear(values) == EmptyMap

\* the loop of ResetValues: every declaration with defaultValueSet stores its default
RECURSIVE SeedDefaults(_, _, _)
SeedDefaults(args, names, values) ==
    IF names = {} THEN values
    ELSE LET n == FirstKey(names)
         IN  SeedDefaults(args, names \ {n},
                          IF args[n].defaultValueSet
                          THEN Put(values, args[n].name, args[n].defaultValue)
                          ELSE values)

ResetValues_KeepsOld(args, values) == SeedDefaults(args, DOMAIN args, values)

ResetValues_NoDefaults(args, values) == Clear(values)

\* Args::ResetValues: the new m_argValues (m_currentOrderedArgIndex is set to 0 by the caller)
ResetValues(args, values) == SeedDefaults(args, DOMAIN args, Clear(values))

\* Args::StripDashes
StripDashes(s) ==
    IF Len(s) = 0
    THEN [threw |-> TRUE, what |-> <<"argument needs to be at least one character">>]
    ELSE IF CharAt(s, 0) # <<"-">> THEN [threw |-> FALSE, name |-> s]
    ELSE IF CharAt(s, 1) = <<"-">> THEN [threw |-> FALSE, name |-> Substr(s, 2)]
    ELSE [threw |-> FALSE, name |-> Substr(s, 1)]

LookupArg_NoLetter(args, lookup, name) ==
    IF name \in DOMAIN args THEN [found |-> TRUE, name |-> name, arg |-> args[name]]
    ELSE IF name \in DOMAIN lookup
         THEN [found |-> TRUE, name |-> name, arg |-> args[lookup[name]]]
    ELSE [found |-> FALSE, name |-> name]

\* Args::LookupArg: name is passed by reference and replaced by the full name
LookupArg(args, lookup, name) ==
    LET full == IF name \in DOMAIN lookup THEN lookup[name] ELSE name
    IN  IF full \in DOMAIN args
        THEN [found |-> TRUE, name |-> full, arg |-> args[full]]
        ELSE [found |-> FALSE, name |-> full]

----------------------------------------------------------------------------
(* Args::Args *)

RECURSIVE ArgsCtor_LettersUnchecked(_, _, _)
ArgsCtor_LettersUnchecked(list, k, st) ==
    IF k > Len(list) THEN st
    ELSE LET arg == list[k] IN
         IF arg.name \in DOMAIN st.args
         THEN [threw |-> TRUE, what |-> "cannot have two arguments with the same name"]
         ELSE LET args == Put(st.args, arg.name, arg)
              IN  ArgsCtor_LettersUnchecked(list, k + 1,
                     [threw |-> FALSE,
                      args |-> args,
                      order |-> Append(st.order, arg.name),
                      lookup |-> IF Len(arg.letter) > 0
                                 THEN Put(st.lookup, arg.letter, arg.name)
                                 ELSE st.lookup,
                      ordered |-> IF Len(arg.letter) > 0 THEN st.ordered
                                  ELSE Append(st.ordered, arg.name),
                      values |-> ResetValues(args, st.values)])

RECURSIVE ArgsCtor(_, _, _)
\* the loop over the initializer list from position k, st being the members so far
ArgsCtor(list, k, st) ==
    IF k > Len(list) THEN st
    ELSE LET arg == list[k] IN
         IF arg.name \in DOMAIN st.args
         THEN [threw |-> TRUE, what |-> "cannot have two arguments with the same name"]
         ELSE IF Len(arg.letter) > 0 /\ arg.letter \in DOMAIN st.lookup
         THEN [threw |-> TRUE, what |-> "cannot have two arguments with the same letter"]
         ELSE LET args == Put(st.args, arg.name, arg)
              IN  ArgsCtor(list, k + 1,
                     [threw |-> FALSE,
                      args |-> args,
                      order |-> Append(st.order, arg.name),
                      lookup |-> IF Len(arg.letter) > 0
                                 THEN Put(st.lookup, arg.letter, arg.name)
                                 ELSE st.lookup,
                      ordered |-> IF Len(arg.letter) > 0 THEN st.ordered
                                  ELSE Append(st.ordered, arg.name),
                      values |-> ResetValues(args, st.values)])

\* the members of a default-initialised Args, before the constructor body runs
NoMembers ==
    [threw |-> FALSE, args |-> [k \in {} |-> 0], order |-> << >>,
     lookup |-> EmptyMap, ordered |-> << >>, values |-> EmptyMap]

----------------------------------------------------------------------------
(* Args::Parse(const std::list<std::string> &commandLine) *)

\* the text of the exception thrown for a Required argument without a value
RequiredMessage(name) == <<name, " is required but was not set">>

EmptyCommandLine_IgnoresRequired(args) == [threw |-> FALSE]

\* the commandLine.size() == 0 branch: the loop over m_args, in map order
EmptyCommandLine(args) ==
    LET required == {n \in DOMAIN args : IsRequired(args[n])}
    IN  IF required # {}
        THEN [threw |-> TRUE, what |-> RequiredMessage(args[FirstKey(required)].name)]
        ELSE [threw |-> FALSE]

CheckRequired_Skipped(args, values) == [threw |-> FALSE]

\* "Check all required flags and args have been set": the loop over m_args, in map order
CheckRequired(args, values) ==
    LET missing == {n \in DOMAIN args :
                       IsRequired(args[n]) /\ ~(args[n].name \in DOMAIN values)}
    IN  IF missing # {}
        THEN [threw |-> TRUE, what |-> RequiredMessage(args[FirstKey(missing)].name)]
        ELSE [threw |-> FALSE]

StoreValue_Dropped(values, name, value) == values

\* m_argValues[name] = value for an Option whose value passed IsValidValue
StoreValue(values, name, value) == Put(values, name, value)

NextValue_BlankWhenMissing(commandLine, j) ==
    IF j > Len(commandLine) THEN [missing |-> FALSE, value |-> EmptyString]
    ELSE [missing |-> FALSE, value |-> commandLine[j]]

NextValue_Stripped(commandLine, j) ==
    IF j > Len(commandLine) THEN [missing |-> TRUE]
    ELSE [missing |-> FALSE,
          value |-> IF Len(commandLine[j]) = 0 THEN commandLine[j]
                    ELSE StripDashes(commandLine[j]).name]

\* the token after an Option: j == commandLine.end(), or value = *j
NextValue(commandLine, j) ==
    IF j > Len(commandLine) THEN [missing |-> TRUE]
    ELSE [missing |-> FALSE, value |-> commandLine[j]]

RECURSIVE Scan(_, _, _, _, _, _, _, _)
\* the while loop of Parse with the iterator i at (1-based) position i; j is
\* always the position after i.  given collects the names the loop assigned.
Scan(args, lookup, ordered, commandLine, i, values, index, given) ==
    IF i > Len(commandLine)
    THEN [threw |-> FALSE, values |-> values, index |-> index, given |-> given]
    ELSE
    LET token == commandLine[i]
        j == i + 1
        stripped == StripDashes(token)
        Throw(what) == [threw |-> TRUE, what |-> what, values |-> values,
                        index |-> index, given |-> given]
    IN
    IF stripped.threw THEN Throw(stripped.what)
    ELSE
    LET found == LookupArg(args, lookup, stripped.name)
        nameOrValue == found.name
    IN
    IF ~found.found
    THEN IF index >= Len(ordered)
         THEN Throw(<<"couldn't find ", token, " in specified list of arguments">>)
         ELSE Scan(args, lookup, ordered, commandLine, i + 1,
                   Put(values, ordered[index + 1], nameOrValue),
                   index + 1, given \cup {ordered[index + 1]})
    ELSE IF found.arg.isFlag
    THEN Scan(args, lookup, ordered, commandLine, i + 1,
              Put(values, nameOrValue, EmptyString), index, given \cup {nameOrValue})
    ELSE IF NextValue(commandLine, j).missing
    THEN Throw(<<"argument ", token, " given without a value">>)
    ELSE IF ~IsValidValue(found.arg, NextValue(commandLine, j).value)
    THEN Throw(<<"value ", NextValue(commandLine, j).value, " for argument ", token,
                 " isn't one of the options">>)
    ELSE Scan(args, lookup, ordered, commandLine, i + 2,
              StoreValue(values, nameOrValue, NextValue(commandLine, j).value),
              index, given \cup {nameOrValue})

\* Parse: what it returns (ret), prints (out) and leaves in m_argValues and
\* m_currentOrderedArgIndex; given is the set of names its loop assigned
Parse(args, lookup, ordered, oldValues, commandLine) ==
    LET reset == ResetValues(args, oldValues)
    IN  IF Len(commandLine) = 0
        THEN LET e == EmptyCommandLine(args)
             IN  [ret |-> ~e.threw, out |-> IF e.threw THEN e.what ELSE << >>,
                  values |-> reset, index |-> 0, given |-> {}]
        ELSE LET s == Scan(args, lookup, ordered, commandLine, 1, reset, 0, {})
                 c == CheckRequired(args, s.values)
             IN  IF s.threw
                 THEN [ret |-> FALSE, out |-> s.what, values |-> s.values,
                       index |-> s.index, given |-> s.given]
                 ELSE [ret |-> ~c.threw, out |-> IF c.threw THEN c.what ELSE << >>,
                       values |-> s.values, index |-> s.index, given |-> s.given]

----------------------------------------------------------------------------
(* Accessors *)

\* Args::IsSet
IsSet(values, name) == name \in DOMAIN values

\* m_argValues[name] as an rvalue: std::map::operator[] inserts an empty string for a missing key
Subscript(values, name) ==
    IF name \in DOMAIN values THEN values ELSE Put(values, name, EmptyString)

\* Args::Get: the string returned
Get(values, name) == Subscript(values, name)[name]

----------------------------------------------------------------------------
(* The declaration lists and command-line tokens the model is run on *)

ver == <<"v", "e", "r">>
col == <<"c", "o", "l">>
num == <<"n", "u", "m">>
str == <<"s", "t", "r">>
boo == <<"b", "o", "o">>
zed == <<"z", "e", "d">>
aaa == <<"a", "a", "a">>
bbb == <<"b", "b", "b">>
opt == <<"o", "p", "t">>
fla == <<"f", "l", "a">>
xra == <<"x", "r", "a">>
red == <<"r", "e", "d">>
grn == <<"g", "r", "n">>
mau == <<"m", "a", "u">>
tru == <<"t", "r", "u", "e">>
fal == <<"f", "a", "l", "s", "e">>
foo == <<"f", "o", "o">>
bar == <<"b", "a", "r">>
five == <<"5">>
nine == <<"9">>

\* "-" + letter and "--" + name
Short(letter) == <<"-">> \o letter
Long(name) == <<"-", "-">> \o name

\* the registry of the test program, shortened
TestCalls ==
    << [ctor |-> "Flag", name |-> ver, letter |-> <<"v">>],
       [ctor |-> "ArgPossibleOrdinality", name |-> col, letter |-> <<"c">>,
        possibleValues |-> {red, grn}, ordinality |-> Required],
       [ctor |-> "ArgDefault", name |-> num, letter |-> <<"n">>, defaultValue |-> five],
       [ctor |-> "ArgOrdinality", name |-> str, letter |-> <<"s">>, ordinality |-> Optional] >>

\* nothing Required, an Option with allowed values and a default
DefaultsCalls ==
    << [ctor |-> "Flag", name |-> ver, letter |-> <<"v">>],
       [ctor |-> "ArgPossibleDefault", name |-> boo, letter |-> <<"b">>,
        possibleValues |-> {tru, fal}, defaultValue |-> fal],
       [ctor |-> "ArgOrdinality", name |-> str, letter |-> <<"s">>, ordinality |-> Optional] >>

\* two Positionals and a Flag
PositionalCalls ==
    << [ctor |-> "PositionalArg", name |-> aaa, ordinality |-> Required],
       [ctor |-> "PositionalArg", name |-> bbb, ordinality |-> Optional],
       [ctor |-> "Flag", name |-> xra, letter |-> <<"x">>] >>

\* an Option (with a default) and a Flag without a letter, declared around a Positional
LetterlessCalls ==
    << [ctor |-> "ArgDefault", name |-> opt, letter |-> EmptyString, defaultValue |-> five],
       [ctor |-> "PositionalArg", name |-> aaa, ordinality |-> Optional],
       [ctor |-> "Flag", name |-> fla, letter |-> EmptyString] >>

\* a Required Positional and a Required Option, declared in the reverse of their name order
TwoRequiredCalls ==
    << [ctor |-> "PositionalArg", name |-> zed, ordinality |-> Required],
       [ctor |-> "ArgPossibleOrdinality", name |-> col, letter |-> <<"c">>,
        possibleValues |-> {red, grn}, ordinality |-> Required],
       [ctor |-> "Flag", name |-> ver, letter |-> <<"v">>] >>

\* declaration lists a constructor rejects, and the empty list
DuplicateNameCalls ==
    << [ctor |-> "Flag", name |-> ver, letter |-> <<"v">>],
       [ctor |-> "ArgOrdinality", name |-> ver, letter |-> <<"x">>, ordinality |-> Optional] >>

DuplicateLetterCalls ==
    << [ctor |-> "Flag", name |-> ver, letter |-> <<"v">>],
       [ctor |-> "ArgOrdinality", name |-> col, letter |-> <<"v">>, ordinality |-> Optional] >>

ShortNameCalls ==
    << [ctor |-> "Flag", name |-> <<"v">>, letter |-> <<"v">>] >>

LongLetterCalls ==
    << [ctor |-> "ArgOrdinality", name |-> ver, letter |-> <<"v", "r">>, ordinality |-> Optional] >>

BadDefaultCalls ==
    << [ctor |-> "ArgPossibleDefault", name |-> col, letter |-> <<"c">>,
        possibleValues |-> {red, grn}, defaultValue |-> mau] >>

\* more declarations an Arg constructor rejects
ShortArgNameCalls ==
    << [ctor |-> "ArgDefault", name |-> <<"n">>, letter |-> <<"n">>, defaultValue |-> five] >>

LongFlagLetterCalls ==
    << [ctor |-> "Flag", name |-> ver, letter |-> <<"v", "r">>] >>

\* a default with an empty set of possible values
EmptySetDefaultCalls ==
    << [ctor |-> "ArgPossibleDefault", name |-> col, letter |-> <<"c">>,
        possibleValues |-> {}, defaultValue |-> mau] >>

\* a name no scenario declares
undeclared == <<"u", "u">>

\* calls: the initializer list handed to Args; words: the tokens its command
\* lines are made of; names: the names its accessors are called with
Scenarios ==
    << [calls |-> TestCalls, names |-> {ver, str},
        words |-> {Short(<<"v">>), Short(<<"c">>), mau}],
       [calls |-> TestCalls, names |-> {col, undeclared},
        words |-> {Long(col), red, mau}],
       [calls |-> TestCalls, names |-> {ver, num},
        words |-> {Short(<<"v">>), Short(<<"c">>), red}],
       [calls |-> TestCalls, names |-> {ver, undeclared},
        words |-> {ver, <<"v">>, Short(ver)}],
       [calls |-> TestCalls, names |-> {ver, undeclared},
        words |-> {Long(<<"v">>), Short(<<"v">>), <<"v">>}],
       [calls |-> TestCalls, names |-> {num, str},
        words |-> {Short(<<"n">>), nine, EmptyString}],
       [calls |-> DefaultsCalls, names |-> {boo, str},
        words |-> {Long(boo), tru, mau}],
       [calls |-> DefaultsCalls, names |-> {boo, undeclared},
        words |-> {Short(<<"b">>), tru, mau}],
       [calls |-> DefaultsCalls, names |-> {str, undeclared},
        words |-> {Short(<<"v">>), Long(ver), Short(<<"s">>)}],
       [calls |-> PositionalCalls, names |-> {aaa, bbb},
        words |-> {foo, bar, Short(<<"x">>)}],
       [calls |-> PositionalCalls, names |-> {aaa, xra},
        words |-> {foo, Short(<<"u">>), Long(xra)}],
       [calls |-> LetterlessCalls, names |-> {opt, aaa},
        words |-> {foo, bar, Long(opt)}],
       [calls |-> LetterlessCalls, names |-> {fla, aaa},
        words |-> {foo, Long(fla), Short(<<"u">>)}],
       [calls |-> TwoRequiredCalls, names |-> {zed, col},
        words |-> {foo, Long(col), red}],
       [calls |-> << >>, names |-> {undeclared}, words |-> {foo, Short(<<"v">>)}],
       [calls |-> DuplicateNameCalls, names |-> {}, words |-> {}],
       [calls |-> DuplicateLetterCalls, names |-> {}, words |-> {}],
       [calls |-> ShortNameCalls, names |-> {}, words |-> {}],
       [calls |-> LongLetterCalls, names |-> {}, words |-> {}],
       [calls |-> BadDefaultCalls, names |-> {}, words |-> {}],
       [calls |-> ShortArgNameCalls, names |-> {}, words |-> {}],
       [calls |-> LongFlagLetterCalls, names |-> {}, words |-> {}],
       [calls |-> EmptySetDefaultCalls, names |-> {col}, words |-> {Short(<<"c">>), red}] >>

\* every command line of at most MaxTokens tokens over a set of words
CommandLines(words) == UNION {[1..n -> words] : n \in 0..MaxTokens}

\* the words of the scenario the Args object was built for
Words == IF scenario \in 1..Len(Scenarios) THEN Scenarios[scenario].words ELSE {}

\* the names the accessors are called with
QueryNames == IF scenario \in 1..Len(Scenarios) THEN Scenarios[scenario].names ELSE {}

----------------------------------------------------------------------------
(* The state machine *)

Init ==
    /\ pc = "start"
    /\ scenario = 0
    /\ m_args = [k \in {} |-> 0]
    /\ m_insertionOrder = << >>
    /\ m_orderedArgNames = << >>
    /\ m_currentOrderedArgIndex = 0
    /\ m_argLookup = EmptyMap
    /\ m_argValues = EmptyMap
    /\ lastCall = [op |-> "none"]

\* Args args({ ... }): the Arg constructors of the list run first, then Args::Args
Construct(sc) ==
    /\ pc = "start"
    /\ scenario' = sc
    /\ LET calls == Scenarios[sc].calls
           made == [k \in 1..Len(calls) |-> MakeArg(calls[k])]
           bad == {k \in 1..Len(calls) : made[k].threw}
           first == CHOOSE k \in bad : \A h \in bad : k <= h
           list == [k \in 1..Len(calls) |-> made[k].arg]
           built == ArgsCtor(list, 1, NoMembers)
       IN  IF bad # {}
           THEN /\ pc' = "threw"
                /\ lastCall' = [op |-> "Arg", what |-> made[first].what]
                /\ UNCHANGED <<m_args, m_insertionOrder, m_orderedArgNames,
                               m_currentOrderedArgIndex, m_argLookup, m_argValues>>
           ELSE IF built.threw
           THEN /\ pc' = "threw"
                /\ lastCall' = [op |-> "Args", what |-> built.what]
                /\ UNCHANGED <<m_args, m_insertionOrder, m_orderedArgNames,
                               m_currentOrderedArgIndex, m_argLookup, m_argValues>>
           ELSE /\ pc' = "ready"
                /\ lastCall' = [op |-> "Args", what |-> ""]
                /\ m_args' = built.args
                /\ m_insertionOrder' = built.order
                /\ m_orderedArgNames' = built.ordered
                /\ m_currentOrderedArgIndex' = 0
                /\ m_argLookup' = built.lookup
                /\ m_argValues' = built.values

\* args.Parse(commandLine); dropped records the names whose entry the call discarded
ParseCall(commandLine) ==
    /\ pc = "ready"
    /\ LET r == Parse(m_args, m_argLookup, m_orderedArgNames, m_argValues, commandLine)
       IN  /\ m_argValues' = r.values
           /\ m_currentOrderedArgIndex' = r.index
           /\ lastCall' = [op |-> "Parse", commandLine |-> commandLine,
                           ret |-> r.ret, out |-> r.out, given |-> r.given,
                           dropped |-> (DOMAIN m_argValues) \ (DOMAIN r.values)]
    /\ UNCHANGED <<pc, scenario, m_args, m_insertionOrder, m_orderedArgNames, m_argLookup>>

\* args.IsSet(name)
IsSetCall(name) ==
    /\ pc = "ready"
    /\ lastCall' = [op |-> "IsSet", name |-> name, ret |-> IsSet(m_argValues, name)]
    /\ UNCHANGED <<pc, scenario, m_args, m_insertionOrder, m_orderedArgNames,
                   m_currentOrderedArgIndex, m_argLookup, m_argValues>>

\* args.Get(name)
GetCall(name) ==
    /\ pc = "ready"
    /\ m_argValues' = Subscript(m_argValues, name)
    /\ lastCall' = [op |-> "Get", name |-> name, ret |-> Get(m_argValues, name)]
    /\ UNCHANGED <<pc, scenario, m_args, m_insertionOrder, m_orderedArgNames,
                   m_currentOrderedArgIndex, m_argLookup>>

\* args.GetAsInt(name), args.GetAsBool(name), args.GetAsFloat(name): each reads
\* m_argValues[name] into a stream; the converted number is not kept in the object
GetAsCall(op, name) ==
    /\ pc = "ready"
    /\ m_argValues' = Subscript(m_argValues, name)
    /\ lastCall' = [op |-> op, name |-> name]
    /\ UNCHANGED <<pc, scenario, m_args, m_insertionOrder, m_orderedArgNames,
                   m_currentOrderedArgIndex, m_argLookup>>

GetAsIntCall(name) == GetAsCall("GetAsInt", name)
GetAsBoolCall(name) == GetAsCall("GetAsBool", name)
GetAsFloatCall(name) == GetAsCall("GetAsFloat", name)

Next ==
    \/ \E sc \in 1..Len(Scenarios) : Construct(sc)
    \/ \E commandLine \in CommandLines(Words) : ParseCall(commandLine)
    \/ \E name \in QueryNames : IsSetCall(name)
    \/ \E name \in QueryNames : GetCall(name)
    \/ \E name \in QueryNames : GetAsIntCall(name)
    \/ \E name \in QueryNames : GetAsBoolCall(name)
    \/ \E name \in QueryNames : GetAsFloatCall(name)

Spec == Init /\ [][Next]_vars

----------------------------------------------------------------------------
(* Vocabulary of the properties *)

\* the last call was a Parse on the constructed object
AfterParse == pc = "ready" /\ lastCall.op = "Parse"

\* the declarations of a given ordinality, with a default, with allowed values
RequiredNames == {n \in DOMAIN m_args : m_args[n].ordinality = Required}
DefaultedNames == {n \in DOMAIN m_args : m_args[n].defaultValueSet}
RestrictedOptions ==
    {n \in DOMAIN m_args : ~m_args[n].isFlag /\ m_args[n].possibleValues # {}}
LetteredFlags == {n \in DOMAIN m_args : m_args[n].isFlag /\ Len(m_args[n].letter) = 1}

\* the declared defaults as a mapping name -> defaultValue
Defaults == [n \in DefaultedNames |-> m_args[n].defaultValue]

\* the tokens that give a declaration by name or by letter
GivenBy(n) ==
    {Long(n)} \cup (IF Len(m_args[n].letter) = 1 THEN {Short(m_args[n].letter)} ELSE {})

\* the token is "--name" or "-letter" of a declared Flag
IsFlagToken(token) == \E n \in DOMAIN m_args : m_args[n].isFlag /\ token \in GivenBy(n)

----------------------------------------------------------------------------
(* C1 - C10 *)

\* C1: whenever Parse on a non-empty token list returns success, every Required
\* declaration has an entry in m_argValues; a Required declaration without an
\* entry after the scan makes Parse return failure.
RequiredSetOnSuccess ==
    (AfterParse /\ Len(lastCall.commandLine) > 0) =>
        /\ lastCall.ret => \A n \in RequiredNames : IsSet(m_argValues, n)
        /\ (\E n \in RequiredNames : ~IsSet(m_argValues, n)) => ~lastCall.ret

RequiredSetOnSuccess_Witness ==
    /\ AfterParse
    /\ Len(lastCall.commandLine) > 0
    /\ lastCall.ret
    /\ RequiredNames # {}

\* C2: after a Parse that returns failure, m_argValues holds exactly the
\* declared defaults and nothing recorded from the tokens consumed before the
\* failure.
FailedParseShowsOnlyDefaults ==
    (AfterParse /\ ~lastCall.ret) => m_argValues = Defaults

\* C3: Get, GetAsInt, GetAsBool and GetAsFloat leave m_argValues unchanged, so
\* IsSet(name) is the same before and after the accessor call.
AccessorsReadOnly ==
    [][lastCall'.op \in {"Get", "GetAsInt", "GetAsBool", "GetAsFloat"}
          => /\ m_argValues' = m_argValues
             /\ IsSet(m_argValues', lastCall'.name) = IsSet(m_argValues, lastCall'.name)]_vars

\* C4: after a Parse, every entry of m_argValues that its own tokens did not
\* assign is a declared default with the default's value: nothing an earlier
\* call left in the mapping survives, and IsSet is false for every name that
\* has no default and was not given by this call's tokens.
ResetBetweenParses ==
    AfterParse =>
        \A n \in (DOMAIN m_argValues) \ lastCall.given :
            n \in DefaultedNames /\ m_argValues[n] = Defaults[n]

\* the Parse discarded the entry a previous Parse's tokens had made for ver
ResetBetweenParses_Witness ==
    /\ AfterParse
    /\ ~(ver \in QueryNames)
    /\ ver \in lastCall.dropped
    /\ ~IsSet(m_argValues, ver)

DefaultsSeeded ==
    (AfterParse /\ lastCall.ret) =>
        /\ lastCall.commandLine = << >> => m_argValues = Defaults
        /\ \A n \in DefaultedNames \ lastCall.given :
              IsSet(m_argValues, n) /\ Get(m_argValues, n) = m_args[n].defaultValue

DefaultsSeeded_Witness ==
    /\ AfterParse
    /\ lastCall.ret
    /\ lastCall.commandLine # << >>
    /\ lastCall.given # {}
    /\ DefaultedNames \ lastCall.given # {}

\* C7 as stated: for an Option with a non-empty allowed-value set V and v in V,
\* Parse(["--name", v]) succeeds and Get(name) is v.
RoundTripAlwaysSucceeds ==
    AfterParse =>
        \A n \in RestrictedOptions : \A v \in m_args[n].possibleValues :
            lastCall.commandLine = <<Long(n), v>> =>
                lastCall.ret /\ IsSet(m_argValues, n) /\ Get(m_argValues, n) = v

\* C7 amended: after Parse(["--name", v]) with v in V, Get(name) is v, and the
\* Parse succeeds exactly when no other declaration is Required.
RoundTrip ==
    AfterParse =>
        \A n \in RestrictedOptions : \A v \in m_args[n].possibleValues :
            lastCall.commandLine = <<Long(n), v>> =>
                /\ IsSet(m_argValues, n) /\ Get(m_argValues, n) = v
                /\ lastCall.ret <=> (RequiredNames \ {n} = {})
                /\ ~lastCall.ret =>
                      \E r \in RequiredNames \ {n} : lastCall.out = RequiredMessage(r)

RoundTrip_Witness ==
    /\ AfterParse
    /\ lastCall.ret
    /\ \E n \in RestrictedOptions : \E v \in m_args[n].possibleValues :
          /\ lastCall.commandLine = <<Long(n), v>>
          /\ Get(m_argValues, n) = v
          /\ ~(n \in DefaultedNames /\ m_args[n].defaultValue = v)

\* C8: when the scan comes to a token that gives an Option with a non-empty
\* allowed-value set V (by --name or by -letter) and the next token v is not
\* in V, Parse fails with the "isn't one of the options" message and v is not
\* recorded as the option's value.  The scan comes to position k at least
\* when every earlier token gives a Flag.
NotOneOfTheOptions ==
    AfterParse =>
        \A n \in RestrictedOptions : \A k \in 1..(Len(lastCall.commandLine) - 1) :
            ( /\ \A h \in 1..(k - 1) : IsFlagToken(lastCall.commandLine[h])
              /\ lastCall.commandLine[k] \in GivenBy(n)
              /\ ~(lastCall.commandLine[k + 1] \in m_args[n].possibleValues) )
            => /\ ~lastCall.ret
               /\ lastCall.out = <<"value ", lastCall.commandLine[k + 1], " for argument ",
                                   lastCall.commandLine[k], " isn't one of the options">>
               /\ ~(IsSet(m_argValues, n) /\ m_argValues[n] = lastCall.commandLine[k + 1])

NotOneOfTheOptions_Witness ==
    /\ AfterParse
    /\ ~lastCall.ret
    /\ \E n \in RestrictedOptions :
          /\ Len(lastCall.commandLine) = 3
          /\ IsFlagToken(lastCall.commandLine[1])
          /\ lastCall.commandLine[2] = Short(m_args[n].letter)
          /\ lastCall.commandLine[3] = mau

\* the declared Positional arguments, in declaration order
Positionals == SelectSeq(m_insertionOrder, LAMBDA n : m_args[n].isPositional)

\* the token resolves to no declared name or letter
Unresolved(token) ==
    /\ Len(token) > 0
    /\ ~LookupArg(m_args, m_argLookup, StripDashes(token).name).found

Min(a, b) == IF a <= b THEN a ELSE b

\* C9: unresolved tokens fill the declared Positional arguments in declaration
\* order, the k-th such token becoming the value of the k-th Positional.
PositionalOrdering ==
    (AfterParse /\ \A h \in 1..Len(lastCall.commandLine) : Unresolved(lastCall.commandLine[h])) =>
        \A k \in 1..Min(Len(lastCall.commandLine), Len(Positionals)) :
            /\ IsSet(m_argValues, Positionals[k])
            /\ m_argValues[Positionals[k]] = lastCall.commandLine[k]

\* C10: for a Flag with a letter, Parse(["-letter"]) and Parse(["--name"])
\* return the same result and leave equal mappings, keyed by the full name.
ShortLongEquivalence ==
    AfterParse =>
        \A n \in LetteredFlags :
            lastCall.commandLine = <<Short(m_args[n].letter)>> =>
                LET long == Parse(m_args, m_argLookup, m_orderedArgNames, m_argValues,
                                  <<Long(n)>>)
                IN  /\ long.ret = lastCall.ret
                    /\ long.values = m_argValues
                    /\ IsSet(m_argValues, n)
                    /\ ~IsSet(m_argValues, m_args[n].letter)

ShortLongEquivalence_Witness ==
    /\ AfterParse
    /\ lastCall.ret
    /\ \E n \in LetteredFlags :
          /\ lastCall.commandLine = <<Short(m_args[n].letter)>>
          /\ m_argValues[n] = EmptyString

----------------------------------------------------------------------------
(* C11 - C20 *)

\* the initializer list the Args object was (or was to be) built from
Calls == IF scenario \in 1..Len(Scenarios) THEN Scenarios[scenario].calls ELSE << >>

\* the letter a constructor call passes on to Arg
CallLetter(call) == IF call.ctor = "PositionalArg" THEN EmptyString ELSE call.letter

\* an Arg constructor of the list threw; Args::Args itself threw
ArgThrew == pc = "threw" /\ lastCall.op = "Arg"
ArgsThrew == pc = "threw" /\ lastCall.op = "Args"

\* C11: constructing Args from an empty declaration list is rejected with
\* invalid_argument; no usable registry results.
EmptyListRejected ==
    (pc # "start" /\ Calls = << >>) => pc = "threw"

\* two entries of the list share a name; share a non-empty letter
SharedName ==
    \E h, k \in 1..Len(Calls) : h < k /\ Calls[h].name = Calls[k].name
SharedLetter ==
    \E h, k \in 1..Len(Calls) :
        h < k /\ Len(CallLetter(Calls[h])) > 0 /\ CallLetter(Calls[h]) = CallLetter(Calls[k])

NameAndLetterLengths ==
    pc # "start" =>
        \A k \in 1..Len(Calls) :
            (Len(Calls[k].name) < 2 \/ Len(CallLetter(Calls[k])) > 1) =>
                /\ ArgThrew
                /\ lastCall.what \in {"argument name must be two or more letters",
                                      "argument letter must be one letter or blank"}

NameAndLetterLengths_Witness ==
    /\ ArgThrew
    /\ lastCall.what = "argument name must be two or more letters"
    /\ \E k \in 1..Len(Calls) : Len(Calls[k].name) = 1 /\ Len(CallLetter(Calls[k])) = 1

\* the message of the constructor that takes possible values and a default
BadDefaultMessage == "default value is not present in allowed values"

\* the entries of the list whose default is outside a non-empty set of possible values
BadDefaults ==
    {k \in 1..Len(Calls) :
        /\ Calls[k].ctor = "ArgPossibleDefault"
        /\ Calls[k].possibleValues # {}
        /\ ~(Calls[k].defaultValue \in Calls[k].possibleValues)}

\* C14: a declaration whose default is not in its non-empty allowed-value set
\* is rejected at construction; with an empty set any default is accepted;
\* so every default of a constructed registry satisfies IsValidValue.
DefaultInAllowedValues ==
    /\ (pc # "start" /\ BadDefaults # {}) => ArgThrew
    /\ (ArgThrew /\ lastCall.what = BadDefaultMessage) => BadDefaults # {}
    /\ pc = "ready" =>
          \A n \in DefaultedNames :
              \/ m_args[n].possibleValues = {}
              \/ m_args[n].defaultValue \in m_args[n].possibleValues

DefaultInAllowedValues_Witness ==
    /\ ArgThrew
    /\ BadDefaults # {}
    /\ lastCall.what = BadDefaultMessage

\* C15: when the scan comes to a token that resolves to an Option (a
\* declaration that is not a Flag) and no token follows it, Parse fails with
\* the "given without a value" message and records no value for that option.
\* The scan comes to the last token at least when every earlier one gives a Flag.
GivenWithoutValue ==
    AfterParse =>
        \A n \in DOMAIN m_args :
            LET line == lastCall.commandLine
                k == Len(line)
            IN  ( /\ ~m_args[n].isFlag
                  /\ k >= 1
                  /\ \A h \in 1..(k - 1) : IsFlagToken(line[h])
                  /\ line[k] \in GivenBy(n) )
                => /\ ~lastCall.ret
                   /\ lastCall.out = <<"argument ", line[k], " given without a value">>
                   /\ ~(n \in lastCall.given)
                   /\ IsSet(m_argValues, n) =>
                         (n \in DefaultedNames /\ m_argValues[n] = m_args[n].defaultValue)

GivenWithoutValue_Witness ==
    /\ AfterParse
    /\ ~lastCall.ret
    /\ Len(lastCall.commandLine) = 2
    /\ IsFlagToken(lastCall.commandLine[1])
    /\ \E n \in DOMAIN m_args :
          /\ ~m_args[n].isFlag
          /\ lastCall.commandLine[2] \in GivenBy(n)
          /\ ~IsSet(m_argValues, n)

\* C16: a token that resolves to no declared name or letter, met when every
\* Positional is already consumed (or none is declared), makes Parse fail with
\* "couldn't find X in specified list of arguments", X being the raw token.
UnrecognisedRejected ==
    ( /\ AfterParse
      /\ \A h \in 1..Len(lastCall.commandLine) : Unresolved(lastCall.commandLine[h])
      /\ Len(lastCall.commandLine) > Len(Positionals) )
    => /\ ~lastCall.ret
       /\ lastCall.out = <<"couldn't find ", lastCall.commandLine[Len(Positionals) + 1],
                           " in specified list of arguments">>

\* C17: the list used for positional matching holds exactly the Positional
\* declarations in declaration order, and a Flag or Option declared without a
\* letter is only ever assigned when a token names it.
OrderedListIsPositionals ==
    /\ pc = "ready" => m_orderedArgNames = Positionals
    /\ AfterParse =>
          \A n \in lastCall.given :
              m_args[n].isPositional
              \/ \E h \in 1..Len(lastCall.commandLine) :
                    lastCall.commandLine[h] \in GivenBy(n)

\* C18: a bare token equal to the full name or the letter of a Flag or Option
\* does not set it, and is rejected when no positional slot is available.
BareTokenIsNoName ==
    AfterParse =>
        \A n \in DOMAIN m_args :
            ( /\ Len(m_args[n].letter) = 1
              /\ lastCall.commandLine \in {<<n>>, <<m_args[n].letter>>} )
            => /\ ~(n \in lastCall.given)
               /\ Len(m_orderedArgNames) = 0 =>
                     /\ ~lastCall.ret
                     /\ lastCall.out = <<"couldn't find ", lastCall.commandLine[1],
                                         " in specified list of arguments">>

\* C19: an unresolved token consumed as a positional argument is stored as
\* the raw token, leading dashes included.
PositionalKeepsRawToken ==
    ( /\ AfterParse
      /\ Len(lastCall.commandLine) = 1
      /\ Unresolved(lastCall.commandLine[1])
      /\ Len(m_orderedArgNames) > 0 )
    => /\ IsSet(m_argValues, m_orderedArgNames[1])
       /\ m_argValues[m_orderedArgNames[1]] = lastCall.commandLine[1]

\* C20: one leading dash selects the letter lookup and two the name lookup:
\* "-letter" and "--name" give a Flag, "-name" and "--letter" do not.
DashCountSelectsLookup ==
    AfterParse =>
        \A n \in LetteredFlags :
            /\ lastCall.commandLine \in {<<Short(m_args[n].letter)>>, <<Long(n)>>}
                  => n \in lastCall.given
            /\ lastCall.commandLine \in {<<Short(n)>>, <<Long(m_args[n].letter)>>}
                  => ~(n \in lastCall.given)

----------------------------------------------------------------------------
(* C21 - C23 *)

\* the Required declarations without an entry in m_argValues
MissingRequired == {n \in RequiredNames : ~IsSet(m_argValues, n)}

\* the last Parse printed an "is required but was not set" message
RequiredError ==
    /\ AfterParse
    /\ ~lastCall.ret
    /\ Len(lastCall.out) = 2
    /\ lastCall.out[2] = " is required but was not set"

\* the position of a declared name in the declaration list
DeclaredAt(n) == CHOOSE k \in 1..Len(m_insertionOrder) : m_insertionOrder[k] = n

\* C21 as stated: the "is required but was not set" error names the first
\* unsatisfied Required declaration in declaration order.
RequiredErrorNamesFirstDeclared ==
    RequiredError =>
        \E n \in MissingRequired :
            /\ lastCall.out[1] = n
            /\ \A m \in MissingRequired : DeclaredAt(n) <= DeclaredAt(m)

\* C21 amended: the error names the first unsatisfied Required declaration in
\* the order of the name-keyed map, which is ascending order of the names.
RequiredErrorNamesLeastName ==
    RequiredError =>
        \E n \in MissingRequired :
            /\ lastCall.out[1] = n
            /\ \A m \in MissingRequired \ {n} : StrLess(n, m)

\* two Required declarations are unset and the one named was declared second
RequiredErrorNamesLeastName_Witness ==
    /\ RequiredError
    /\ Cardinality(MissingRequired) >= 2
    /\ \E m \in MissingRequired : DeclaredAt(m) < DeclaredAt(lastCall.out[1])

\* C22: the outcome of Parse(tokens) - the result, the message, the mapping
\* and the positional slots used - is the outcome of the same call on the
\* freshly constructed object, whatever calls were made before.
HistoryIndependence ==
    AfterParse =>
        LET fresh == Parse(m_args, m_argLookup, m_orderedArgNames,
                           ResetValues(m_args, EmptyMap), lastCall.commandLine)
        IN  /\ lastCall.ret = fresh.ret
            /\ lastCall.out = fresh.out
            /\ m_argValues = fresh.values
            /\ m_currentOrderedArgIndex = fresh.index
            /\ lastCall.given = fresh.given

\* an earlier Parse had filled the second positional slot; this one filled only the first
HistoryIndependence_Witness ==
    /\ AfterParse
    /\ Len(m_orderedArgNames) >= 2
    /\ m_currentOrderedArgIndex = 1
    /\ ~(m_orderedArgNames[2] \in QueryNames)
    /\ m_orderedArgNames[2] \in lastCall.dropped
    /\ lastCall.given = {m_orderedArgNames[1]}

\* the Options that accept any value
FreeOptions == {n \in DOMAIN m_args : ~m_args[n].isFlag /\ m_args[n].possibleValues = {}}
AllFlags == {n \in DOMAIN m_args : m_args[n].isFlag}

\* C23: a token resolved to a Flag records "" and uses one token; a token
\* resolved to an Option uses two, the second stored verbatim as its value
\* and never itself read as an argument.
CursorAdvance ==
    AfterParse =>
        LET line == lastCall.commandLine IN
        /\ \A n \in FreeOptions :
              (Len(line) >= 2 /\ line[1] \in GivenBy(n)) =>
                  /\ Len(line) = 2 =>
                        (lastCall.given = {n} /\ m_argValues[n] = line[2])
                  /\ \A f \in AllFlags :
                        (Len(line) = 3 /\ line[3] \in GivenBy(f)) =>
                            /\ lastCall.given = {n, f}
                            /\ m_argValues[n] = line[2]
                            /\ m_argValues[f] = EmptyString
        /\ \A f \in AllFlags :
              (Len(line) >= 1 /\ line[1] \in GivenBy(f)) =>
                  /\ Len(line) = 1 =>
                        (lastCall.given = {f} /\ m_argValues[f] = EmptyString)
                  /\ \A g \in AllFlags :
                        (Len(line) = 2 /\ line[2] \in GivenBy(g)) =>
                            /\ lastCall.given = {f, g}
                            /\ m_argValues[f] = EmptyString
                            /\ m_argValues[g] = EmptyString
                  /\ \A n \in FreeOptions :
                        (Len(line) = 3 /\ line[2] \in GivenBy(n)) =>
                            /\ lastCall.given = {f, n}
                            /\ m_argValues[f] = EmptyString
                            /\ m_argValues[n] = line[3]

\* ["-s", "-v"]: the Option has the value "-v" and the Flag is not set
CursorAdvance_Witness ==
    /\ AfterParse
    /\ lastCall.ret
    /\ \E n \in FreeOptions : \E f \in AllFlags :
          /\ Len(m_args[n].letter) = 1
          /\ Len(m_args[f].letter) = 1
          /\ lastCall.commandLine = <<Short(m_args[n].letter), Short(m_args[f].letter)>>
          /\ m_argValues[n] = Short(m_args[f].letter)
          /\ ~IsSet(m_argValues, f)

====
